---- MODULE Spec2Model ----
(***************************************************************************)
(* Model of the two variants of the wgpu demo:                             *)
(*   variant "src"  : src/src/lib.rs      (winit closure event loop)       *)
(*   variant "rust" : src/rust/src/lib.rs (winit ApplicationHandler)       *)
(* One behaviour runs one variant, chosen in Init.  An event handler is    *)
(* one action; the methods it calls (input, resize, render, handle_key)    *)
(* are operators on a machine record m = [state, fx, exit, redraw] that    *)
(* carries the State struct, the effects of the handler so far, the exit   *)
(* request and the pending redraw request.                                 *)
(***************************************************************************)
EXTENDS Integers, Sequences, FiniteSets, TLC

VARIABLES
    variant,            \* "src" | "rust": which lib.rs runs
    state,              \* Option<State>: <<>> (None) or <<State record>>
    inner_size,         \* window.inner_size(), owned by the windowing system
    window,             \* the window has been created
    pending_resized,    \* a Resized event (carrying the window's size) awaits delivery
    proxy,              \* App.proxy: "Some" (a wasm32 build, not yet taken) | "None"
    spawned,            \* the future spawned by resumed is running
    user_events,        \* States sent through the proxy, not yet delivered
    exited,             \* ControlFlow::Exit / event_loop.exit() was requested
    redraw_requested,   \* window.request_redraw() is pending
    ev,                 \* the event the last handler was called with
    fx,                 \* what the last handler did (calls on the GPU, window, log)
    key_hist            \* history of the C and F key events a State has received

vars == <<variant, state, inner_size, window, pending_resized, proxy, spawned, user_events,
          exited, redraw_requested, ev, fx, key_hist>>

\* ---------------------------------------------------------------- bounds

MaxWidth == 2
MaxHeight == 1
MaxCursor == 1

Sizes == [width : 0..MaxWidth, height : 0..MaxHeight]
NonZeroSizes == {s \in Sizes : s.width > 0 /\ s.height > 0}
Positions == [x : 0..MaxCursor, y : 0..MaxCursor]

\* ---------------------------------------------------------------- numbers

RECURSIVE GCD(_, _)
GCD(a, b) == IF b = 0 THEN a ELSE GCD(b, a % b)

\* Floating-point division a / b of two non-negative values, as a reduced
\* fraction <<numerator, denominator>>; x / 0 is +inf (<<1, 0>>) and 0 / 0 is
\* NaN (<<0, 0>>) as in IEEE 754.
Quot(a, b) ==
    IF b = 0 THEN (IF a = 0 THEN <<0, 0>> ELSE <<1, 0>>)
    ELSE LET g == GCD(a, b) IN <<a \div g, b \div g>>

Color(r, g, b, a) == [r |-> r, g |-> g, b |-> b, a |-> a]

\* wgpu::Color::BLACK
BLACK == Color(<<0, 1>>, <<0, 1>>, <<0, 1>>, <<1, 1>>)

\* wgpu::Color { r: 0.1, g: 0.2, b: 0.3, a: 1.0 }
RUST_CLEAR == Color(Quot(1, 10), Quot(2, 10), Quot(3, 10), Quot(1, 1))

\* ---------------------------------------------------------------- static data

\* Vertex positions in units of 1e-8, colours in units of 0.1.
Vertex(px, py, pz, cr, cg, cb) == [position |-> <<px, py, pz>>, color |-> <<cr, cg, cb>>]

Pentagon(c) ==
    << Vertex( -8682410,  49240386, 0, c[1][1], c[1][2], c[1][3]),
       Vertex(-49513406,   6958647, 0, c[2][1], c[2][2], c[2][3]),
       Vertex(-21918549, -44939706, 0, c[3][1], c[3][2], c[3][3]),
       Vertex( 35966998, -34732910, 0, c[4][1], c[4][2], c[4][3]),
       Vertex( 44147372,  23473590, 0, c[5][1], c[5][2], c[5][3]) >>

src_VERTICES ==
    Pentagon(<< <<10, 0, 0>>, <<10, 10, 5>>, <<0, 10, 0>>, <<0, 10, 10>>, <<0, 0, 10>> >>)

rust_VERTICES ==
    Pentagon(<< <<5, 0, 5>>, <<5, 0, 5>>, <<5, 0, 5>>, <<5, 0, 5>>, <<5, 0, 5>> >>)

INDICES == << 0, 1, 4,   1, 2, 4,   2, 3, 4 >>

LetterL(dx) ==
    << Vertex( 5000000 + dx, -10000000, 0, 10, 0, 0),
       Vertex(15000000 + dx, -10000000, 0, 10, 10, 5),
       Vertex(15000000 + dx, -75000000, 0, 10, 0, 0),
       Vertex(25000000 + dx, -75000000, 0, 10, 0, 0),
       Vertex(25000000 + dx, -85000000, 0, 10, 0, 0),
       Vertex( 5000000 + dx, -85000000, 0, 10, 0, 0),
       Vertex( 5000000 + dx, -75000000, 0, 10, 0, 0) >>

LetterO ==
    << Vertex(40000000, -30000000, 0, 10, 0, 0),
       Vertex(40000000, -20000000, 0, 10, 0, 0),
       Vertex(60000000, -20000000, 0, 10, 0, 0),
       Vertex(60000000, -30000000, 0, 10, 0, 0),
       Vertex(70000000, -30000000, 0, 10, 0, 0),
       Vertex(70000000, -70000000, 0, 10, 0, 0),
       Vertex(60000000, -70000000, 0, 10, 0, 0),
       Vertex(60000000, -80000000, 0, 10, 0, 0),
       Vertex(40000000, -80000000, 0, 10, 0, 0),
       Vertex(40000000, -70000000, 0, 10, 0, 0),
       Vertex(30000000, -70000000, 0, 10, 0, 0),
       Vertex(30000000, -30000000, 0, 10, 0, 0) >>

FUNNY_VERTICES == LetterL(0) \o LetterO \o LetterL(70000000)

FUNNY_INDICES ==
    <<  6,  1,  0,    6,  2,  1,    3,  6,  5,    5,  4,  3,
        9,  8,  7,    7, 10,  9,   12, 11, 10,   10, 13, 12,
       13, 15, 14,   13, 16, 15,   16, 18, 17,   16,  7, 18,
       19, 21, 20,   19, 25, 21,   25, 23, 22,   25, 24, 23 >>

\* The static array a buffer was initialised from, by the array's name.
StaticArray(v, name) ==
    CASE name = "VERTICES" -> (IF v = "src" THEN src_VERTICES ELSE rust_VERTICES)
      [] name = "INDICES" -> INDICES
      [] name = "FUNNY_VERTICES" -> FUNNY_VERTICES
      [] name = "FUNNY_INDICES" -> FUNNY_INDICES

\* device.create_buffer_init(&BufferInitDescriptor { label, contents, usage })
create_buffer_init(label, contents, usage) ==
    [label |-> label, contents |-> contents, usage |-> usage]

\* device.create_render_pipeline: the shader module and the vertex buffer layouts
create_render_pipeline(shader, buffers) ==
    [label |-> "Render Pipeline", shader |-> shader, buffers |-> buffers]

\* ---------------------------------------------------------------- effects

\* The effects of one handler, empty when the handler starts.
NoFx ==
    [ renders |-> 0,              \* calls of State::render
      result |-> "none",          \* what render returned
      acquired |-> FALSE,         \* get_current_texture succeeded
      clears |-> <<>>,            \* LoadOp::Clear colours of the passes begun
      draws |-> <<>>,             \* draw calls recorded
      submits |-> 0,              \* queue.submit calls
      presents |-> 0,             \* output.present calls
      configures |-> <<>>,        \* surface.configure calls, by size
      logs |-> <<>>,              \* log records written
      exits |-> 0,                \* exit requests
      redraw_requests |-> 0 ]     \* window.request_redraw calls

Machine(s, x, r) == [state |-> s, fx |-> NoFx, exit |-> x, redraw |-> r]

\* surface.configure(&device, &config)
configure(m) ==
    [m EXCEPT !.state.surface = [configured |-> TRUE,
                                 width |-> m.state.config.width,
                                 height |-> m.state.config.height],
              !.fx.configures = Append(@, [width |-> m.state.config.width,
                                           height |-> m.state.config.height])]

log(m, level, msg) == [m EXCEPT !.fx.logs = Append(@, <<level, msg>>)]

\* window.request_redraw()
request_redraw(m) ==
    [m EXCEPT !.redraw = TRUE, !.fx.redraw_requests = @ + 1]

\* *control_flow = ControlFlow::Exit  /  event_loop.exit()
exit(m) == [m EXCEPT !.exit = TRUE, !.fx.exits = @ + 1]

\* ---------------------------------------------------------------- render pass

\* encoder.begin_render_pass with one colour attachment cleared to `color`
begin_render_pass(color) ==
    [clear |-> color, pipeline |-> <<>>, vertex_buffer |-> <<>>,
     index_buffer |-> <<>>, draws |-> <<>>]

set_pipeline(rp, p) == [rp EXCEPT !.pipeline = <<p>>]

set_vertex_buffer(rp, b) == [rp EXCEPT !.vertex_buffer = <<b>>]

set_index_buffer(rp, b) == [rp EXCEPT !.index_buffer = <<b>>]

\* render_pass.draw(first..last, 0..1)
draw(rp, first, last) ==
    [rp EXCEPT !.draws = Append(@, [call |-> "draw", first |-> first, last |-> last,
                                    pipeline |-> rp.pipeline,
                                    vertex_buffer |-> rp.vertex_buffer,
                                    index_buffer |-> <<>>])]

\* render_pass.draw_indexed(first..last, 0, 0..1)
draw_indexed(rp, first, last) ==
    [rp EXCEPT !.draws = Append(@, [call |-> "draw_indexed", first |-> first, last |-> last,
                                    pipeline |-> rp.pipeline,
                                    vertex_buffer |-> rp.vertex_buffer,
                                    index_buffer |-> rp.index_buffer])]

\* drop(render_pass); queue.submit(once(encoder.finish())); output.present()
finish_frame(m, rp) ==
    [m EXCEPT !.fx.clears = Append(@, rp.clear),
              !.fx.draws = @ \o rp.draws,
              !.fx.submits = @ + 1,
              !.fx.presents = @ + 1]

\* ---------------------------------------------------------------- events

Keys == {"C", "F", "Escape", "A"}

SrcAcquire == {"Ok", "Timeout", "Outdated", "Lost", "OutOfMemory"}

RustAcquire == SrcAcquire \cup {"Other"}

\* An event as delivered by winit.  code/pressed are read by keyboard events,
\* size by Resized and ScaleFactorChanged, position by CursorMoved; acquire is
\* what surface.get_current_texture() answers during a RedrawRequested.
Event(kind) ==
    [position |-> [x |-> 0, y |-> 0],
     kind |-> kind, code |-> "-", pressed |-> FALSE,
     size |-> [width |-> 0, height |-> 0], acquire |-> "-"]

KeyEvents == {[Event("KeyboardInput") EXCEPT !.code = k, !.pressed = p] :
                 k \in Keys, p \in BOOLEAN}

\* ================================================================ src/src/lib.rs

\* State::new(window), with size = window.inner_size()
src_State_new(size) ==
    LET config == [width |-> size.width, height |-> size.height] IN
    [ surface |-> [configured |-> TRUE, width |-> config.width, height |-> config.height],
      config |-> config,
      size |-> size,
      clear_color |-> BLACK,
      render_pipeline |-> create_render_pipeline("shader.wgsl", <<>>),
      color_render_pipeline |-> create_render_pipeline("color_shader.wgsl", <<"Vertex::desc">>),
      use_color |-> TRUE,
      use_funny |-> FALSE,
      vertex_buffer |-> create_buffer_init("Vertex buffer", "VERTICES", "VERTEX"),
      num_vertices |-> Len(src_VERTICES),
      index_buffer |-> create_buffer_init("Index Buffer", "INDICES", "INDEX"),
      num_indices |-> Len(INDICES),
      funny_vertex_buffer |-> create_buffer_init("Vertex buffer", "FUNNY_VERTICES", "VERTEX"),
      funny_num_vertices |-> Len(src_VERTICES),
      funny_index_buffer |-> create_buffer_init("Index Buffer", "FUNNY_INDICES", "INDEX"),
      funny_num_indices |-> Len(FUNNY_INDICES) ]

\* Mutant of src_resize: self.size is not updated.
src_resize_keeps_size(m, new_size) ==
    IF new_size.width > 0 /\ new_size.height > 0
    THEN configure([m EXCEPT !.state.config.width = new_size.width,
                             !.state.config.height = new_size.height])
    ELSE m

\* Mutant of src_resize: an accepted resize also rebuilds the index buffer, empty.
src_resize_rebuild(m, new_size) ==
    IF new_size.width > 0 /\ new_size.height > 0
    THEN configure([m EXCEPT !.state.size = new_size,
                             !.state.config.width = new_size.width,
                             !.state.config.height = new_size.height,
                             !.state.index_buffer = create_buffer_init("Index Buffer", "EMPTY", "INDEX"),
                             !.state.num_indices = 0])
    ELSE m

\* State::resize(&mut self, new_size)
src_resize(m, new_size) ==
    IF new_size.width > 0 /\ new_size.height > 0
    THEN configure([m EXCEPT !.state.size = new_size,
                             !.state.config.width = new_size.width,
                             !.state.config.height = new_size.height])
    ELSE m

\* Mutant of src_input: C and F negate their flag on a press only.
src_input_press_only(m, e) ==
    CASE e.kind = "CursorMoved" ->
           [m |-> [m EXCEPT !.state.clear_color =
                        Color(Quot(e.position.x, m.state.size.width),
                              Quot(e.position.y, m.state.size.height),
                              Quot(1, 1), Quot(1, 1))],
            handled |-> TRUE]
      [] e.kind = "KeyboardInput" ->
           CASE e.code = "C" /\ e.pressed ->
                  [m |-> [m EXCEPT !.state.use_color = ~m.state.use_color], handled |-> TRUE]
             [] e.code = "F" /\ e.pressed ->
                  [m |-> [m EXCEPT !.state.use_funny = ~m.state.use_funny], handled |-> TRUE]
             [] OTHER -> [m |-> m, handled |-> FALSE]
      [] OTHER -> [m |-> m, handled |-> FALSE]

\* State::input(&mut self, event) -> bool, as [m, handled]
src_input(m, e) ==
    CASE e.kind = "CursorMoved" ->
           [m |-> [m EXCEPT !.state.clear_color =
                        Color(Quot(e.position.x, m.state.size.width),
                              Quot(e.position.y, m.state.size.height),
                              Quot(1, 1), Quot(1, 1))],
            handled |-> TRUE]
      [] e.kind = "KeyboardInput" ->
           CASE e.code = "C" ->
                  [m |-> [m EXCEPT !.state.use_color = ~m.state.use_color], handled |-> TRUE]
             [] e.code = "F" ->
                  [m |-> [m EXCEPT !.state.use_funny = ~m.state.use_funny], handled |-> TRUE]
             [] OTHER -> [m |-> m, handled |-> FALSE]
      [] OTHER -> [m |-> m, handled |-> FALSE]

\* Mutant of src_draw_path: use_color is tested before use_funny.
src_draw_path_color_first(s, rp) ==
    IF s.use_color
    THEN draw_indexed(set_index_buffer(set_vertex_buffer(
             set_pipeline(rp, s.color_render_pipeline),
             s.vertex_buffer), s.index_buffer), 0, s.num_indices)
    ELSE IF s.use_funny
    THEN draw_indexed(set_index_buffer(set_vertex_buffer(
             set_pipeline(rp, s.color_render_pipeline),
             s.funny_vertex_buffer), s.funny_index_buffer), 0, s.funny_num_indices)
    ELSE draw(set_vertex_buffer(set_pipeline(rp, s.render_pipeline), s.vertex_buffer),
              0, s.num_vertices)

\* Mutant of src_draw_path: the funny branch is a separate `if`, so the pentagon
\* is drawn as well.
src_draw_path_two_ifs(s, rp) ==
    LET rp1 == IF s.use_funny
               THEN draw_indexed(set_index_buffer(set_vertex_buffer(
                        set_pipeline(rp, s.color_render_pipeline),
                        s.funny_vertex_buffer), s.funny_index_buffer), 0, s.funny_num_indices)
               ELSE rp
    IN IF s.use_color
       THEN draw_indexed(set_index_buffer(set_vertex_buffer(
                set_pipeline(rp1, s.color_render_pipeline),
                s.vertex_buffer), s.index_buffer), 0, s.num_indices)
       ELSE draw(set_vertex_buffer(set_pipeline(rp1, s.render_pipeline), s.vertex_buffer),
                 0, s.num_vertices)

\* The body of the render pass of State::render: the draw call selected by the flags
src_draw_path(s, rp) ==
    IF s.use_funny
    THEN draw_indexed(set_index_buffer(set_vertex_buffer(
             set_pipeline(rp, s.color_render_pipeline),
             s.funny_vertex_buffer), s.funny_index_buffer), 0, s.funny_num_indices)
    ELSE IF s.use_color
    THEN draw_indexed(set_index_buffer(set_vertex_buffer(
             set_pipeline(rp, s.color_render_pipeline),
             s.vertex_buffer), s.index_buffer), 0, s.num_indices)
    ELSE draw(set_vertex_buffer(set_pipeline(rp, s.render_pipeline), s.vertex_buffer),
              0, s.num_vertices)

\* Mutant of src_render: the pass is cleared to BLACK instead of self.clear_color.
src_render_black(m, acquire) ==
    LET m1 == [m EXCEPT !.fx.renders = @ + 1] IN
    IF acquire # "Ok"
    THEN [m1 EXCEPT !.fx.result = acquire]
    ELSE LET rp == src_draw_path(m1.state, begin_render_pass(BLACK)) IN
         [finish_frame([m1 EXCEPT !.fx.acquired = TRUE], rp) EXCEPT !.fx.result = "Ok"]

\* State::render(&mut self) -> Result<(), SurfaceError>; acquire is the answer of
\* surface.get_current_texture()
src_render(m, acquire) ==
    LET m1 == [m EXCEPT !.fx.renders = @ + 1] IN
    IF acquire # "Ok"
    THEN [m1 EXCEPT !.fx.result = acquire]
    ELSE LET rp == src_draw_path(m1.state, begin_render_pass(m1.state.clear_color)) IN
         [finish_frame([m1 EXCEPT !.fx.acquired = TRUE], rp) EXCEPT !.fx.result = "Ok"]

\* Mutant of src_redraw: OutOfMemory is only logged.
src_redraw_no_exit(m, acquire) ==
    LET m1 == src_render(m, acquire) IN
    CASE m1.fx.result = "Ok" -> m1
      [] m1.fx.result \in {"Lost", "Outdated"} -> src_resize(m1, m1.state.size)
      [] m1.fx.result = "OutOfMemory" -> log(m1, "warn", "Out of memory")
      [] m1.fx.result = "Timeout" -> log(m1, "warn", "Surface timeout")

\* Mutant of src_redraw: Timeout shares the arm of Lost and Outdated.
src_redraw_timeout_resize(m, acquire) ==
    LET m1 == src_render(m, acquire) IN
    CASE m1.fx.result = "Ok" -> m1
      [] m1.fx.result \in {"Lost", "Outdated", "Timeout"} -> src_resize(m1, m1.state.size)
      [] m1.fx.result = "OutOfMemory" -> exit(m1)

\* Mutant of src_redraw: after the reconfigure, render is called again.
src_redraw_retry(m, acquire) ==
    LET m1 == src_render(m, acquire) IN
    CASE m1.fx.result = "Ok" -> m1
      [] m1.fx.result \in {"Lost", "Outdated"} ->
           src_render(src_resize(m1, m1.state.size), "Ok")
      [] m1.fx.result = "OutOfMemory" -> exit(m1)
      [] m1.fx.result = "Timeout" -> log(m1, "warn", "Surface timeout")

\* The match on state.render() in the RedrawRequested arm of run
src_redraw(m, acquire) ==
    LET m1 == src_render(m, acquire) IN
    CASE m1.fx.result = "Ok" -> m1
      [] m1.fx.result \in {"Lost", "Outdated"} -> src_resize(m1, m1.state.size)
      [] m1.fx.result = "OutOfMemory" -> exit(m1)
      [] m1.fx.result = "Timeout" -> log(m1, "warn", "Surface timeout")

\* The closure passed to event_loop.run in run
src_event_handler(m, e) ==
    CASE e.kind \in {"CloseRequested", "KeyboardInput", "Resized", "ScaleFactorChanged",
                     "CursorMoved", "OtherWindowEvent"} ->
           LET r == src_input(m, e) IN
           IF r.handled THEN r.m
           ELSE CASE e.kind = "CloseRequested"
                     \/ (e.kind = "KeyboardInput" /\ e.pressed /\ e.code = "Escape") ->
                       exit(log(r.m, "warn", "Escape key pressed"))
                  [] e.kind = "Resized" -> src_resize(r.m, e.size)
                  [] e.kind = "ScaleFactorChanged" -> src_resize(r.m, e.size)
                  [] OTHER -> log(r.m, "warn", "Some other event")
      [] e.kind = "RedrawRequested" -> src_redraw(m, e.acquire)
      [] e.kind = "RedrawEventsCleared" -> request_redraw(m)
      [] OTHER -> m

\* History: whether the number of C (of F) keyboard events the closure has
\* received is odd.
src_key_hist(h, e) ==
    IF e.kind = "KeyboardInput" /\ e.code \in {"C", "F"}
    THEN [h EXCEPT !.odd[e.code] = ~@]
    ELSE h

\* One call of the closure with event e
src_Handle(e) ==
    /\ variant = "src"
    /\ ~exited
    /\ ev' = e
    /\ LET s == state[1]
           m == src_event_handler(
                    Machine(s, exited, redraw_requested /\ e.kind # "RedrawRequested"), e)
       IN /\ state' = <<m.state>>
          /\ fx' = m.fx
          /\ exited' = m.exit
          /\ redraw_requested' = m.redraw
    /\ key_hist' = src_key_hist(key_hist, e)
    /\ UNCHANGED <<variant, inner_size, window, pending_resized, proxy, spawned, user_events>>

src_CloseRequested == src_Handle(Event("CloseRequested"))

src_KeyboardInput == \E e \in KeyEvents : src_Handle(e)

src_Resized == \E sz \in Sizes : src_Handle([Event("Resized") EXCEPT !.size = sz])

src_ScaleFactorChanged ==
    \E sz \in Sizes : src_Handle([Event("ScaleFactorChanged") EXCEPT !.size = sz])

src_CursorMoved ==
    \E p \in Positions : src_Handle([Event("CursorMoved") EXCEPT !.position = p])

src_OtherWindowEvent == src_Handle(Event("OtherWindowEvent"))

src_RedrawRequested ==
    \E a \in SrcAcquire : src_Handle([Event("RedrawRequested") EXCEPT !.acquire = a])

src_RedrawEventsCleared == src_Handle(Event("RedrawEventsCleared"))

src_OtherEvent == src_Handle(Event("MainEventsCleared"))

src_Next ==
    \/ src_CloseRequested
    \/ src_KeyboardInput
    \/ src_Resized
    \/ src_ScaleFactorChanged
    \/ src_CursorMoved
    \/ src_OtherWindowEvent
    \/ src_RedrawRequested
    \/ src_RedrawEventsCleared
    \/ src_OtherEvent

\* ================================================================ src/rust/src/lib.rs

\* State::new(window), with size = window.inner_size()
rust_State_new(size) ==
    [ surface |-> [configured |-> FALSE, width |-> 0, height |-> 0],
      config |-> [width |-> size.width, height |-> size.height],
      is_surface_configured |-> FALSE,
      render_pipeline |-> create_render_pipeline("shader.wgsl", <<"Vertex::desc">>),
      color_render_pipeline |-> create_render_pipeline("color_shader.wgsl", <<>>),
      use_color |-> FALSE,
      vertex_buffer |-> create_buffer_init("Vertex Buffer", "VERTICES", "VERTEX"),
      num_vertices |-> Len(rust_VERTICES),
      index_buffer |-> create_buffer_init("Index Buffer", "INDICES", "INDEX"),
      num_indices |-> Len(INDICES),
      funny_vertex_buffer |-> create_buffer_init("Vertex Buffer", "FUNNY_VERTICES", "VERTEX"),
      funny_num_vertices |-> Len(FUNNY_VERTICES),
      funny_index_buffer |-> create_buffer_init("Index Buffer", "FUNNY_INDICES", "INDEX"),
      funny_num_indices |-> Len(FUNNY_INDICES),
      use_funny |-> FALSE ]

\* Mutant of rust_resize: the guard joins the two tests with || instead of &&.
rust_resize_either(m, width, height) ==
    IF width > 0 \/ height > 0
    THEN [configure([m EXCEPT !.state.config.width = width,
                              !.state.config.height = height])
             EXCEPT !.state.is_surface_configured = TRUE]
    ELSE m

\* State::resize(&mut self, width, height)
rust_resize(m, width, height) ==
    IF width > 0 /\ height > 0
    THEN [configure([m EXCEPT !.state.config.width = width,
                              !.state.config.height = height])
             EXCEPT !.state.is_surface_configured = TRUE]
    ELSE m

\* Mutant of rust_handle_key: Escape exits on a release as well.
rust_handle_key_any_escape(m, code, is_pressed) ==
    CASE code = "C" -> [m EXCEPT !.state.use_color = is_pressed]
      [] code = "F" -> [m EXCEPT !.state.use_funny = is_pressed]
      [] code = "Escape" -> exit(m)
      [] OTHER -> m

\* Mutant of rust_handle_key: C and F set their flag on a press and ignore a release.
rust_handle_key_press_only(m, code, is_pressed) ==
    CASE code = "C" /\ is_pressed -> [m EXCEPT !.state.use_color = TRUE]
      [] code = "F" /\ is_pressed -> [m EXCEPT !.state.use_funny = TRUE]
      [] code = "Escape" /\ is_pressed -> exit(m)
      [] OTHER -> m

\* Mutant of rust_handle_key: C and F negate their flag instead of storing the
\* pressed state.
rust_handle_key_toggle(m, code, is_pressed) ==
    CASE code = "C" -> [m EXCEPT !.state.use_color = ~m.state.use_color]
      [] code = "F" -> [m EXCEPT !.state.use_funny = ~m.state.use_funny]
      [] code = "Escape" /\ is_pressed -> exit(m)
      [] OTHER -> m

\* Mutant of rust_handle_key: the C arm also clears use_funny.
rust_handle_key_both(m, code, is_pressed) ==
    CASE code = "C" -> [m EXCEPT !.state.use_color = is_pressed, !.state.use_funny = FALSE]
      [] code = "F" -> [m EXCEPT !.state.use_funny = is_pressed]
      [] code = "Escape" /\ is_pressed -> exit(m)
      [] OTHER -> m

\* State::handle_key(&mut self, event_loop, code, is_pressed)
rust_handle_key(m, code, is_pressed) ==
    CASE code = "C" -> [m EXCEPT !.state.use_color = is_pressed]
      [] code = "F" -> [m EXCEPT !.state.use_funny = is_pressed]
      [] code = "Escape" /\ is_pressed -> exit(m)
      [] OTHER -> m

\* Mutant of rust_draw_path: use_funny is tested before use_color.
rust_draw_path_funny_first(s, rp) ==
    IF s.use_funny
    THEN draw_indexed(set_index_buffer(set_vertex_buffer(
             set_pipeline(rp, s.render_pipeline),
             s.funny_vertex_buffer), s.funny_index_buffer), 0, s.funny_num_indices)
    ELSE IF s.use_color
    THEN draw(set_pipeline(rp, s.color_render_pipeline), 0, 3)
    ELSE draw_indexed(set_index_buffer(set_vertex_buffer(
             set_pipeline(rp, s.render_pipeline),
             s.vertex_buffer), s.index_buffer), 0, s.num_indices)

\* Mutant of rust_draw_path: the funny branch binds the pentagon's vertex buffer.
rust_draw_path_mixed(s, rp) ==
    IF s.use_color
    THEN draw(set_pipeline(rp, s.color_render_pipeline), 0, 3)
    ELSE IF s.use_funny
    THEN draw_indexed(set_index_buffer(set_vertex_buffer(
             set_pipeline(rp, s.render_pipeline),
             s.vertex_buffer), s.funny_index_buffer), 0, s.funny_num_indices)
    ELSE draw_indexed(set_index_buffer(set_vertex_buffer(
             set_pipeline(rp, s.render_pipeline),
             s.vertex_buffer), s.index_buffer), 0, s.num_indices)

\* The body of the render pass of State::render: the draw call selected by the flags
rust_draw_path(s, rp) ==
    IF s.use_color
    THEN draw(set_pipeline(rp, s.color_render_pipeline), 0, 3)
    ELSE IF s.use_funny
    THEN draw_indexed(set_index_buffer(set_vertex_buffer(
             set_pipeline(rp, s.render_pipeline),
             s.funny_vertex_buffer), s.funny_index_buffer), 0, s.funny_num_indices)
    ELSE draw_indexed(set_index_buffer(set_vertex_buffer(
             set_pipeline(rp, s.render_pipeline),
             s.vertex_buffer), s.index_buffer), 0, s.num_indices)

\* Mutant of rust_render: no early return while the surface is not configured.
rust_render_no_guard(m, acquire) ==
    LET m1 == request_redraw([m EXCEPT !.fx.renders = @ + 1]) IN
    IF acquire # "Ok"
    THEN [m1 EXCEPT !.fx.result = acquire]
    ELSE LET rp == rust_draw_path(m1.state, begin_render_pass(RUST_CLEAR)) IN
         [finish_frame([m1 EXCEPT !.fx.acquired = TRUE], rp) EXCEPT !.fx.result = "Ok"]

\* Mutant of rust_render: the redraw is requested after the early return.
rust_render_request_late(m, acquire) ==
    LET m1 == [m EXCEPT !.fx.renders = @ + 1] IN
    IF ~m1.state.is_surface_configured
    THEN [m1 EXCEPT !.fx.result = "Ok"]
    ELSE IF acquire # "Ok"
    THEN [request_redraw(m1) EXCEPT !.fx.result = acquire]
    ELSE LET rp == rust_draw_path(m1.state, begin_render_pass(RUST_CLEAR)) IN
         [finish_frame([request_redraw(m1) EXCEPT !.fx.acquired = TRUE], rp)
              EXCEPT !.fx.result = "Ok"]

\* State::render(&mut self) -> Result<(), SurfaceError>; acquire is the answer of
\* surface.get_current_texture()
rust_render(m, acquire) ==
    LET m1 == request_redraw([m EXCEPT !.fx.renders = @ + 1]) IN
    IF ~m1.state.is_surface_configured
    THEN [m1 EXCEPT !.fx.result = "Ok"]
    ELSE IF acquire # "Ok"
    THEN [m1 EXCEPT !.fx.result = acquire]
    ELSE LET rp == rust_draw_path(m1.state, begin_render_pass(RUST_CLEAR)) IN
         [finish_frame([m1 EXCEPT !.fx.acquired = TRUE], rp) EXCEPT !.fx.result = "Ok"]

\* Mutant of rust_redraw: the recovery resizes to the configured size, not to the
\* window's inner size.
rust_redraw_same_config(m, acquire, win) ==
    LET m1 == rust_render(m, acquire) IN
    CASE m1.fx.result = "Ok" -> m1
      [] m1.fx.result \in {"Lost", "Outdated"} ->
           rust_resize(m1, m1.state.config.width, m1.state.config.height)
      [] OTHER -> log(m1, "error", <<"Unable to render", m1.fx.result>>)

\* The match on state.render() in the RedrawRequested arm of App::window_event;
\* win is state.window.inner_size()
rust_redraw(m, acquire, win) ==
    LET m1 == rust_render(m, acquire) IN
    CASE m1.fx.result = "Ok" -> m1
      [] m1.fx.result \in {"Lost", "Outdated"} -> rust_resize(m1, win.width, win.height)
      [] OTHER -> log(m1, "error", <<"Unable to render", m1.fx.result>>)

\* Mutant of rust_window_event: CloseRequested is handled before the State is looked up.
rust_window_event_close_first(a, e, win) ==
    IF e.kind = "CloseRequested" THEN exit(a)
    ELSE IF a.state = <<>> THEN a
    ELSE LET m == [a EXCEPT !.state = a.state[1]]
             r == CASE e.kind = "Resized" -> rust_resize(m, e.size.width, e.size.height)
                    [] e.kind = "RedrawRequested" -> rust_redraw(m, e.acquire, win)
                    [] e.kind = "KeyboardInput" /\ e.code # "None" ->
                         rust_handle_key(m, e.code, e.pressed)
                    [] OTHER -> m
         IN [r EXCEPT !.state = <<r.state>>]

\* App::window_event(&mut self, event_loop, _window_id, event); a.state is App.state
rust_window_event(a, e, win) ==
    IF a.state = <<>> THEN a
    ELSE LET m == [a EXCEPT !.state = a.state[1]]
             r == CASE e.kind = "CloseRequested" -> exit(m)
                    [] e.kind = "Resized" -> rust_resize(m, e.size.width, e.size.height)
                    [] e.kind = "RedrawRequested" -> rust_redraw(m, e.acquire, win)
                    [] e.kind = "KeyboardInput" /\ e.code # "None" ->
                         rust_handle_key(m, e.code, e.pressed)
                    [] OTHER -> m
         IN [r EXCEPT !.state = <<r.state>>]

\* App::user_event(&mut self, _event_loop, event) on wasm32; win is
\* event.window.inner_size()
rust_user_event(a, event, win) ==
    LET m == rust_resize(request_redraw([a EXCEPT !.state = event]), win.width, win.height)
    IN [m EXCEPT !.state = <<m.state>>]

\* App::resumed on a native build: the window is created and the State built at once
rust_resumed_native ==
    /\ variant = "rust"
    /\ ~exited
    /\ ~window /\ proxy = "None"
    /\ window' = TRUE
    /\ state' = <<rust_State_new(inner_size)>>
    /\ pending_resized' = TRUE
    /\ redraw_requested' = TRUE      \* a new window is asked to draw itself
    /\ ev' = Event("Resumed")
    /\ fx' = NoFx
    /\ UNCHANGED <<variant, key_hist, inner_size, proxy, spawned, user_events, exited>>

\* App::resumed on wasm32: the window is created, the proxy taken and the future spawned
rust_resumed_wasm ==
    /\ variant = "rust"
    /\ ~exited
    /\ ~window /\ proxy = "Some"
    /\ window' = TRUE
    /\ proxy' = "None"
    /\ spawned' = TRUE
    /\ pending_resized' = TRUE
    /\ redraw_requested' = TRUE      \* a new window is asked to draw itself
    /\ ev' = Event("Resumed")
    /\ fx' = NoFx
    /\ UNCHANGED <<variant, key_hist, state, inner_size, user_events, exited>>

\* The spawned future: proxy.send_event(State::new(window).await)
rust_spawned_future ==
    /\ variant = "rust"
    /\ spawned
    /\ spawned' = FALSE
    /\ user_events' = Append(user_events, rust_State_new(inner_size))
    /\ ev' = Event("FutureCompleted")
    /\ fx' = NoFx
    /\ UNCHANGED <<variant, key_hist, state, inner_size, window, pending_resized, proxy, exited,
                   redraw_requested>>

\* Delivery of the State sent through the proxy to App::user_event
rust_UserEvent ==
    /\ variant = "rust"
    /\ ~exited
    /\ user_events # <<>>
    /\ LET a == rust_user_event(Machine(state, exited, redraw_requested),
                                Head(user_events), inner_size)
       IN /\ state' = a.state
          /\ fx' = a.fx
          /\ exited' = a.exit
          /\ redraw_requested' = a.redraw
    /\ user_events' = Tail(user_events)
    /\ ev' = Event("UserEvent")
    /\ UNCHANGED <<variant, key_hist, inner_size, window, pending_resized, proxy, spawned>>

\* The windowing system changes the window's inner size and queues a Resized event
rust_WindowSizeChanges ==
    /\ variant = "rust"
    /\ ~exited
    /\ window
    /\ \E sz \in Sizes :
          /\ sz # inner_size
          /\ inner_size' = sz
          /\ pending_resized' = TRUE
    /\ ev' = Event("WindowSizeChanged")
    /\ fx' = NoFx
    /\ UNCHANGED <<variant, key_hist, state, window, proxy, spawned, user_events, exited,
                   redraw_requested>>

\* History: the pressed state of the most recent C (F) key event that was
\* delivered while App.state was Some.
rust_key_hist(h, st, e) ==
    IF st # <<>> /\ e.kind = "KeyboardInput" /\ e.code \in {"C", "F"}
    THEN [h EXCEPT !.last[e.code] = e.pressed]
    ELSE h

\* One call of App::window_event with event e
rust_Handle(e) ==
    /\ variant = "rust"
    /\ ~exited
    /\ window
    /\ ev' = e
    /\ LET a == rust_window_event(
                    Machine(state, exited, redraw_requested /\ e.kind # "RedrawRequested"),
                    e, inner_size)
       IN /\ state' = a.state
          /\ fx' = a.fx
          /\ exited' = a.exit
          /\ redraw_requested' = a.redraw
    /\ key_hist' = rust_key_hist(key_hist, state, e)
    /\ pending_resized' = (pending_resized /\ e.kind # "Resized")
    /\ UNCHANGED <<variant, inner_size, window, proxy, spawned, user_events>>

rust_CloseRequested == rust_Handle(Event("CloseRequested"))

\* A queued Resized event is delivered; it carries the window's size
rust_Resized ==
    /\ pending_resized
    /\ rust_Handle([Event("Resized") EXCEPT !.size = inner_size])

rust_RedrawRequested ==
    \E a \in RustAcquire : rust_Handle([Event("RedrawRequested") EXCEPT !.acquire = a])

rust_KeyboardInput == \E e \in KeyEvents : rust_Handle(e)

rust_OtherWindowEvent == rust_Handle(Event("CursorMoved"))

rust_Next ==
    \/ rust_resumed_native
    \/ rust_resumed_wasm
    \/ rust_spawned_future
    \/ rust_UserEvent
    \/ rust_WindowSizeChanges
    \/ rust_CloseRequested
    \/ rust_Resized
    \/ rust_RedrawRequested
    \/ rust_KeyboardInput
    \/ rust_OtherWindowEvent

\* ================================================================ the program

\* No key event has been received.
NoKeys == [odd |-> [C |-> FALSE, F |-> FALSE], last |-> [C |-> FALSE, F |-> FALSE]]

\* The size the window is created with.
InitialSize == [width |-> MaxWidth, height |-> MaxHeight]

\* src: the state after State::new (run awaits it before the event loop starts).
\* rust: the state after App::new; proxy is Some on a wasm32 build.
Init ==
    /\ variant \in {"src", "rust"}
    /\ inner_size = InitialSize
    /\ window = (variant = "src")
    /\ state = IF variant = "src" THEN <<src_State_new(inner_size)>> ELSE <<>>
    /\ pending_resized = FALSE
    /\ proxy \in (IF variant = "rust" THEN {"Some", "None"} ELSE {"None"})
    /\ spawned = FALSE
    /\ user_events = <<>>
    /\ exited = FALSE
    /\ redraw_requested = FALSE
    /\ ev = Event("None")
    /\ fx = NoFx
    /\ key_hist = NoKeys

Next == src_Next \/ rust_Next

Spec == Init /\ [][Next]_vars

\* The event loop delivers a redraw that was requested with window.request_redraw()
\* and surface.get_current_texture() answers Ok.
RequestedRedrawOk ==
    /\ redraw_requested
    /\ \/ src_Handle([Event("RedrawRequested") EXCEPT !.acquire = "Ok"])
       \/ rust_Handle([Event("RedrawRequested") EXCEPT !.acquire = "Ok"])

\* The event loop keeps turning: winit 0.28 emits RedrawEventsCleared after every
\* batch of events, a requested redraw is delivered, and the acquisition of the
\* surface texture succeeds again and again.
FairSpec ==
    /\ Spec
    /\ WF_vars(src_RedrawEventsCleared)
    /\ SF_vars(RequestedRedrawOk)

\* ================================================================ claims

IsKey(e, code) == e.kind = "KeyboardInput" /\ e.code = code

IsResize(e) == e.kind \in {"Resized", "ScaleFactorChanged"}

Positive(sz) == sz.width > 0 /\ sz.height > 0

\* The three fixed draw calls of a variant, by path, over the resources of State s.
C1_Draws(v, s) ==
    IF v = "src"
    THEN [ plain |-> [call |-> "draw", first |-> 0, last |-> 5,
                      pipeline |-> <<s.render_pipeline>>,
                      vertex_buffer |-> <<s.vertex_buffer>>, index_buffer |-> <<>>],
           color |-> [call |-> "draw_indexed", first |-> 0, last |-> 9,
                      pipeline |-> <<s.color_render_pipeline>>,
                      vertex_buffer |-> <<s.vertex_buffer>>,
                      index_buffer |-> <<s.index_buffer>>],
           funny |-> [call |-> "draw_indexed", first |-> 0, last |-> 48,
                      pipeline |-> <<s.color_render_pipeline>>,
                      vertex_buffer |-> <<s.funny_vertex_buffer>>,
                      index_buffer |-> <<s.funny_index_buffer>>] ]
    ELSE [ plain |-> [call |-> "draw_indexed", first |-> 0, last |-> 9,
                      pipeline |-> <<s.render_pipeline>>,
                      vertex_buffer |-> <<s.vertex_buffer>>,
                      index_buffer |-> <<s.index_buffer>>],
           color |-> [call |-> "draw", first |-> 0, last |-> 3,
                      pipeline |-> <<s.color_render_pipeline>>,
                      vertex_buffer |-> <<>>, index_buffer |-> <<>>],
           funny |-> [call |-> "draw_indexed", first |-> 0, last |-> 48,
                      pipeline |-> <<s.render_pipeline>>,
                      vertex_buffer |-> <<s.funny_vertex_buffer>>,
                      index_buffer |-> <<s.funny_index_buffer>>] ]

\* The path each (use_color, use_funny) combination maps to.
C1_Path(v, use_color, use_funny) ==
    IF v = "src"
    THEN (IF use_funny THEN "funny" ELSE IF use_color THEN "color" ELSE "plain")
    ELSE (IF use_color THEN "color" ELSE IF use_funny THEN "funny" ELSE "plain")

\* C1: in both variants a render that acquires a surface texture issues exactly
\* one draw call, and that call is the one of the three fixed draw calls that the
\* values of use_color and use_funny alone select, whatever the window size, the
\* clear colour and the earlier events were.
C1_OneDrawByFlags ==
    fx.acquired =>
        /\ fx.renders = 1
        /\ Len(fx.draws) = 1
        /\ LET s == state[1] IN
           fx.draws[1] = C1_Draws(variant, s)[C1_Path(variant, s.use_color, s.use_funny)]

\* C1 witness: a render with both flags set, after a resize changed the size.
C1_Witness ==
    /\ variant = "src"
    /\ fx.acquired
    /\ state[1].use_color /\ state[1].use_funny
    /\ state[1].size # InitialSize
    /\ Len(fx.draws) = 1

\* C2 as stated: every press of C negates use_color, every press of F negates
\* use_funny, and no other event changes either flag.
C2_PressToggles ==
    [][ (state # <<>> /\ state' # <<>>) =>
          LET s == state[1]
              t == state'[1]
              pressC == IsKey(ev', "C") /\ ev'.pressed
              pressF == IsKey(ev', "F") /\ ev'.pressed
          IN /\ pressC => t.use_color = ~s.use_color
             /\ pressF => t.use_funny = ~s.use_funny
             /\ ~pressC => t.use_color = s.use_color
             /\ ~pressF => t.use_funny = s.use_funny ]_vars

\* C2 amended: the flags change only on C and F key events.  In src/src/lib.rs
\* every C key event, press or release, negates use_color and every F key event
\* negates use_funny; in src/rust/src/lib.rs every C key event sets use_color to
\* whether the key is pressed and every F key event sets use_funny likewise.
C2_KeysSetFlags ==
    [][ (state # <<>> /\ state' # <<>>) =>
          LET s == state[1]
              t == state'[1]
          IN /\ IsKey(ev', "C") =>
                   t.use_color = (IF variant = "src" THEN ~s.use_color ELSE ev'.pressed)
             /\ IsKey(ev', "F") =>
                   t.use_funny = (IF variant = "src" THEN ~s.use_funny ELSE ev'.pressed)
             /\ ~IsKey(ev', "C") => t.use_color = s.use_color
             /\ ~IsKey(ev', "F") => t.use_funny = s.use_funny ]_vars

\* C2 witness: in src/rust/src/lib.rs the release of C has cleared use_color while
\* F is held.
C2_Witness ==
    /\ variant = "rust"
    /\ state # <<>>
    /\ IsKey(ev, "C") /\ ~ev.pressed
    /\ ~state[1].use_color /\ state[1].use_funny

\* C3: resize with a zero width or height changes nothing of the State and does
\* not configure the surface; with both dimensions positive it sets config.width
\* and config.height (and size, in src/src/lib.rs) to the new dimensions and
\* configures the surface once with them.
C3_ResizeGuard ==
    [][ (state # <<>> /\ state' # <<>> /\ IsResize(ev')) =>
          LET s == state[1]
              t == state'[1]
              new == ev'.size
          IN IF Positive(new)
             THEN /\ t.config = new
                  /\ fx'.configures = <<new>>
                  /\ t.surface = [configured |-> TRUE, width |-> new.width,
                                  height |-> new.height]
                  /\ (variant = "src" => t.size = new)
                  /\ (variant = "rust" => t.is_surface_configured)
             ELSE /\ t = s
                  /\ fx'.configures = <<>> ]_vars

\* C3 witness: a Resized event with a zero width was delivered to a State whose
\* surface is configured.
C3_Witness ==
    /\ variant = "rust"
    /\ state # <<>>
    /\ ev.kind = "Resized" /\ ev.size.width = 0 /\ ev.size.height > 0
    /\ state[1].is_surface_configured
    /\ fx.configures = <<>>

\* The last handler was a redraw whose render failed with Lost or Outdated.
Recovery(e, x) == e.kind = "RedrawRequested" /\ x.result \in {"Lost", "Outdated"}

\* C4 as stated: a Lost or Outdated render makes the handler configure the
\* surface once, and config.width and config.height are what they were before.
C4_SameSize ==
    [][ Recovery(ev', fx') =>
          /\ Len(fx'.configures) = 1
          /\ state'[1].config = state[1].config ]_vars

\* C4 amended: on Lost or Outdated, src/src/lib.rs calls resize with its stored
\* size, so the surface is configured once with the unchanged config; src/rust
\* calls resize with the window's current inner size, so the surface is configured
\* once with that size, which becomes the config, when both its dimensions are
\* positive, and is not configured (config unchanged) otherwise.
C4_Reconfigure ==
    [][ Recovery(ev', fx') =>
          LET s == state[1]
              t == state'[1]
          IN IF variant = "src"
             THEN /\ fx'.configures = <<s.config>>
                  /\ t.config = s.config
                  /\ t.size = s.size
             ELSE IF Positive(inner_size)
             THEN /\ fx'.configures = <<inner_size>>
                  /\ t.config = inner_size
             ELSE /\ fx'.configures = <<>>
                  /\ t.config = s.config ]_vars

\* C4 witness: in src/rust/src/lib.rs an Outdated render was recovered by
\* configuring the surface with a window size whose Resized event is still queued.
C4_Witness ==
    /\ variant = "rust"
    /\ Recovery(ev, fx) /\ fx.result = "Outdated"
    /\ pending_resized
    /\ fx.configures = <<inner_size>>
    /\ state[1].config = inner_size

\* C5 as stated: after a render that failed with OutOfMemory the event loop has
\* been told to exit.
C5_ExitInBoth == fx.result = "OutOfMemory" => exited

\* C5 amended: in src/src/lib.rs an OutOfMemory render makes the handler request
\* the exit, and nothing is rendered afterwards; in src/rust/src/lib.rs it is only
\* logged as an error and the event loop goes on.
C5_OutOfMemory ==
    /\ [](fx.result = "OutOfMemory" =>
            IF variant = "src"
            THEN exited /\ fx.exits = 1
            ELSE ~exited /\ fx.exits = 0
                 /\ fx.logs = << <<"error", <<"Unable to render", "OutOfMemory">> >> >>)
    /\ [][exited => fx'.renders = 0]_vars

\* C5 witness: src/src/lib.rs has exited on OutOfMemory.
C5_Witness ==
    /\ variant = "src"
    /\ ev.kind = "RedrawRequested"
    /\ fx.result = "OutOfMemory"
    /\ exited

\* The last render failed with an error other than Lost, Outdated and OutOfMemory.
OtherError(x) == x.result \in {"Timeout", "Other"}

\* C6: a render error other than Lost, Outdated and OutOfMemory is only logged:
\* no exit, no configure, no draw, the State (flags, sizes, clear colour) is
\* unchanged, and the redraw handler can still run.
C6_OtherErrorsLogged ==
    /\ [][ OtherError(fx') =>
             /\ ev'.kind = "RedrawRequested"
             /\ state' = state
             /\ exited' = exited
             /\ fx'.exits = 0
             /\ fx'.configures = <<>>
             /\ fx'.draws = <<>>
             /\ Len(fx'.logs) = 1 ]_vars
    /\ [](OtherError(fx) => ~exited /\ ENABLED (src_RedrawRequested \/ rust_RedrawRequested))

\* C6 witness: a Timeout was logged by src/rust/src/lib.rs while F was held.
C6_Witness ==
    /\ variant = "rust"
    /\ fx.result = "Timeout"
    /\ state[1].use_funny
    /\ Len(fx.logs) = 1
    /\ ~exited

\* C7: one handler calls render at most once, and only for a RedrawRequested
\* event, and configures the surface at most once; a Lost or Outdated failure is
\* followed by the reconfigure alone, not by another render.
C7_NoRetry ==
    /\ fx.renders <= 1
    /\ Len(fx.configures) <= 1
    /\ Len(fx.draws) <= 1
    /\ (fx.renders = 1 => ev.kind = "RedrawRequested")
    /\ (fx.result \in {"Lost", "Outdated"} => fx.renders = 1 /\ ~fx.acquired)

\* C7 witness: src/src/lib.rs reconfigured once after a Lost render.
C7_Witness ==
    /\ variant = "src"
    /\ fx.result = "Lost"
    /\ fx.renders = 1
    /\ Len(fx.configures) = 1

\* The buffers, pipelines and counts of a State.
Resources(s) ==
    <<s.vertex_buffer, s.index_buffer, s.funny_vertex_buffer, s.funny_index_buffer,
      s.render_pipeline, s.color_render_pipeline,
      s.num_vertices, s.num_indices, s.funny_num_vertices, s.funny_num_indices>>

\* C8: the four buffers, the two pipelines and the four counts are those
\* State::new set, and no event replaces or writes any of them.
C8_ResourcesImmutable ==
    /\ [][ (state # <<>> /\ state' # <<>>) => Resources(state'[1]) = Resources(state[1]) ]_vars
    /\ [](state # <<>> =>
            Resources(state[1]) = Resources(IF variant = "src"
                                            THEN src_State_new(InitialSize)
                                            ELSE rust_State_new(InitialSize)))

\* C8 witness: src/src/lib.rs after a resize, a key, a cursor move and a recovery.
C8_Witness ==
    /\ variant = "src"
    /\ fx.result = "Outdated"
    /\ Len(fx.configures) = 1
    /\ state[1].size # InitialSize
    /\ ~state[1].use_color
    /\ state[1].clear_color # BLACK

\* State t differs from State s at most in the size and configuration fields.
SameButSize(v, s, t) ==
    IF v = "src"
    THEN [t EXCEPT !.size = s.size, !.config = s.config, !.surface = s.surface] = s
    ELSE [t EXCEPT !.is_surface_configured = s.is_surface_configured,
                   !.config = s.config, !.surface = s.surface] = s

\* C9: a C key event changes at most use_color, an F key event at most
\* use_funny, any other key event nothing; a resize changes at most the size and
\* configuration fields; a CursorMoved event changes at most clear_color (in
\* src/src/lib.rs; nothing in src/rust/src/lib.rs); a redraw changes nothing,
\* except for the size and configuration fields when it recovers from Lost or
\* Outdated.
C9_Frame ==
    [][ (state # <<>> /\ state' # <<>>) =>
          LET s == state[1]
              t == state'[1]
              e == ev'
          IN /\ (e.kind = "KeyboardInput" =>
                   CASE e.code = "C" -> [t EXCEPT !.use_color = s.use_color] = s
                     [] e.code = "F" -> [t EXCEPT !.use_funny = s.use_funny] = s
                     [] OTHER -> t = s)
             /\ (IsResize(e) => SameButSize(variant, s, t))
             /\ (e.kind = "CursorMoved" =>
                   IF variant = "src"
                   THEN [t EXCEPT !.clear_color = s.clear_color] = s
                   ELSE t = s)
             /\ (e.kind = "RedrawRequested" =>
                   IF Recovery(e, fx') THEN SameButSize(variant, s, t) ELSE t = s) ]_vars

\* C9 witness: a CursorMoved event changed the clear colour of src/src/lib.rs
\* while use_funny was set.
C9_Witness ==
    /\ variant = "src"
    /\ ev.kind = "CursorMoved"
    /\ state[1].clear_color # BLACK
    /\ state[1].use_funny

\* C10: src/rust/src/lib.rs clears every pass with (0.1, 0.2, 0.3, 1.0).
\* src/src/lib.rs clears every pass with clear_color, which is black after
\* State::new, is set by a CursorMoved event to (x / size.width, y / size.height,
\* 1, 1) with the size stored when the event arrives, and is changed by no other
\* event, a resize included.
C10_ClearColour ==
    /\ [](fx.acquired =>
            IF variant = "src"
            THEN fx.clears = <<state[1].clear_color>>
            ELSE fx.clears = <<Color(<<1, 10>>, <<1, 5>>, <<3, 10>>, <<1, 1>>)>>)
    /\ []((variant = "src" /\ ev.kind = "None") => state[1].clear_color = BLACK)
    /\ [][ variant = "src" =>
             IF ev'.kind = "CursorMoved"
             THEN state'[1].clear_color =
                      Color(Quot(ev'.position.x, state[1].size.width),
                            Quot(ev'.position.y, state[1].size.height),
                            <<1, 1>>, <<1, 1>>)
             ELSE state'[1].clear_color = state[1].clear_color ]_vars

\* C10 witness: src/src/lib.rs cleared a pass with r = 1/2, computed when the
\* width was 2, after a resize to width 1.
C10_Witness ==
    /\ variant = "src"
    /\ fx.acquired
    /\ fx.clears = <<Color(<<1, 2>>, <<1, 1>>, <<1, 1>>, <<1, 1>>)>>
    /\ state[1].size.width = 1

\* The vertex array an index list points into.
C11_Matching(name) == IF name = "INDICES" THEN "VERTICES" ELSE "FUNNY_VERTICES"

\* C11: in both variants every value of INDICES is below the length of VERTICES,
\* every value of FUNNY_INDICES is below the length of FUNNY_VERTICES, both index
\* lists have a length that is a multiple of 3, and every indexed draw covers
\* 0..(length of the index list bound for it) with the vertex buffer that was
\* built from the matching vertex array bound.
C11_IndexedDraws ==
    /\ \A name \in {"INDICES", "FUNNY_INDICES"} :
         LET idx == StaticArray(variant, name)
             vs == StaticArray(variant, C11_Matching(name))
         IN /\ Len(idx) % 3 = 0
            /\ \A i \in 1..Len(idx) : idx[i] \in 0..(Len(vs) - 1)
    /\ \A k \in 1..Len(fx.draws) :
         LET d == fx.draws[k] IN
         d.call = "draw_indexed" =>
           /\ d.index_buffer # <<>>
           /\ d.vertex_buffer # <<>>
           /\ d.index_buffer[1].contents \in {"INDICES", "FUNNY_INDICES"}
           /\ d.first = 0
           /\ d.last = Len(StaticArray(variant, d.index_buffer[1].contents))
           /\ d.vertex_buffer[1].contents = C11_Matching(d.index_buffer[1].contents)

\* A frame in which the letters were drawn with an indexed draw.
C11_Witness ==
    /\ fx.acquired
    /\ Len(fx.draws) = 1
    /\ fx.draws[1].call = "draw_indexed"
    /\ fx.draws[1].index_buffer[1].contents = "FUNNY_INDICES"

\* The draw call a frame recorded: which call, its range, the shader of the bound
\* pipeline and the arrays behind the bound vertex and index buffers.
DrawCall(call, last, shader, vertices, indices) ==
    [call |-> call, first |-> 0, last |-> last, shader |-> shader,
     vertices |-> vertices, indices |-> indices]

Drawn(d) ==
    [call |-> d.call, first |-> d.first, last |-> d.last,
     shader |-> IF d.pipeline = <<>> THEN "" ELSE d.pipeline[1].shader,
     vertices |-> IF d.vertex_buffer = <<>> THEN "" ELSE d.vertex_buffer[1].contents,
     indices |-> IF d.index_buffer = <<>> THEN "" ELSE d.index_buffer[1].contents]

\* C12: in src/rust/src/lib.rs use_color takes precedence.  With use_color set the
\* frame draws 3 vertices with the colour pipeline and no vertex or index buffer
\* bound, whatever use_funny is; with use_color clear and use_funny set it draws
\* the letters, indexed over 0..funny_num_indices from the funny buffers with the
\* default pipeline; with both clear it draws the pentagon, indexed over
\* 0..num_indices with the default pipeline.
C12_ColorFirst ==
    (variant = "rust" /\ state # <<>> /\ fx.acquired) =>
        LET s == state[1] IN
        /\ Len(fx.draws) = 1
        /\ Drawn(fx.draws[1]) =
             IF s.use_color
             THEN DrawCall("draw", 3, "color_shader.wgsl", "", "")
             ELSE IF s.use_funny
             THEN DrawCall("draw_indexed", s.funny_num_indices, "shader.wgsl",
                           "FUNNY_VERTICES", "FUNNY_INDICES")
             ELSE DrawCall("draw_indexed", s.num_indices, "shader.wgsl",
                           "VERTICES", "INDICES")

\* A frame of src/rust drawn with both flags set.
C12_Witness ==
    /\ variant = "rust" /\ state # <<>> /\ fx.acquired
    /\ state[1].use_color /\ state[1].use_funny

\* C13: in src/src/lib.rs use_funny takes precedence.  With use_funny set the frame
\* draws the funny buffers, indexed over 0..funny_num_indices with the colour
\* pipeline, whatever use_color is; with use_funny clear and use_color set it draws
\* the pentagon, indexed over 0..num_indices with the colour pipeline; only with
\* both clear it uses the default pipeline, a non-indexed draw of 0..num_vertices.
C13_FunnyFirst ==
    (variant = "src" /\ fx.acquired) =>
        LET s == state[1] IN
        /\ Len(fx.draws) = 1
        /\ Drawn(fx.draws[1]) =
             IF s.use_funny
             THEN DrawCall("draw_indexed", s.funny_num_indices, "color_shader.wgsl",
                           "FUNNY_VERTICES", "FUNNY_INDICES")
             ELSE IF s.use_color
             THEN DrawCall("draw_indexed", s.num_indices, "color_shader.wgsl",
                           "VERTICES", "INDICES")
             ELSE DrawCall("draw", s.num_vertices, "shader.wgsl", "VERTICES", "")

\* A frame of src/src drawn with both flags clear.
C13_Witness ==
    /\ variant = "src" /\ fx.acquired
    /\ ~state[1].use_color /\ ~state[1].use_funny

C15_Negates(code, before, after) ==
    IF IsKey(ev', code) THEN after = ~before ELSE after = before

\* C15: in src/src/lib.rs every KeyboardInput event with code C negates use_color
\* and every one with code F negates use_funny, press and release alike; so
\* use_color = (true XOR the number of C keyboard events is odd) and
\* use_funny = (false XOR the number of F keyboard events is odd), and a press
\* followed by the release of the same key brings the flag back.
C15_Parity ==
    /\ [](variant = "src" =>
            /\ state[1].use_color = (TRUE # key_hist.odd["C"])
            /\ state[1].use_funny = (FALSE # key_hist.odd["F"]))
    /\ [][variant = "src" =>
            /\ C15_Negates("C", state[1].use_color, state'[1].use_color)
            /\ C15_Negates("F", state[1].use_funny, state'[1].use_funny)]_vars

\* C was pressed and released: an even number of C events, the last a release,
\* and use_color is back at its initial value.
C15_Witness ==
    /\ variant = "src"
    /\ IsKey(ev, "C") /\ ~ev.pressed
    /\ ~key_hist.odd["C"]
    /\ state[1].use_color

\* The program runs and has a surface it can draw on.
C16_Ready ==
    /\ state # <<>> /\ ~exited
    /\ variant = "rust" => state[1].is_surface_configured

\* The last handler drew a frame, with the draw call of the current flag values.
C16_Frame ==
    /\ state # <<>> /\ fx.acquired
    /\ LET s == state[1] IN
       fx.draws = <<C1_Draws(variant, s)[C1_Path(variant, s.use_color, s.use_funny)]>>

\* C16: the redraw loop does not stop while the program has not exited.  In
\* src/rust every call of render requests another redraw, also when it returns
\* early on an unconfigured surface or fails, so a redraw is pending whenever the
\* State exists; in src/src every RedrawEventsCleared requests a redraw, whatever
\* the last render returned.  Hence, when texture acquisition keeps succeeding,
\* whatever values the flags were changed to, a frame drawn with the values they
\* then have follows, unless the program exits or loses its configured surface.
C16_RedrawLoop ==
    /\ []((variant = "rust" /\ fx.renders > 0) =>
             fx.redraw_requests > 0 /\ redraw_requested)
    /\ []((variant = "rust" /\ state # <<>>) => redraw_requested)
    /\ []((variant = "src" /\ ev.kind = "RedrawEventsCleared") =>
             fx.redraw_requests = 1 /\ redraw_requested)
    /\ C16_Ready ~> (C16_Frame \/ ~C16_Ready)

\* src/rust returned early from render on an unconfigured surface and asked for
\* the next redraw.
C16_Witness ==
    /\ variant = "rust" /\ state # <<>>
    /\ ~state[1].is_surface_configured
    /\ fx.renders = 1 /\ fx.result = "Ok" /\ ~fx.acquired
    /\ fx.redraw_requests = 1 /\ redraw_requested

\* App.state holds a State whose surface has been configured.
C17_IsConfigured(st) == st # <<>> /\ st[1].is_surface_configured

\* C17: in src/rust/src/lib.rs is_surface_configured is false in the State that
\* State::new returns, becomes true only in a resize call with width > 0 and
\* height > 0, and never returns to false; whenever it is true config.width and
\* config.height are positive; and while it is false render acquires no texture,
\* draws nothing, submits nothing and returns Ok.
C17_SurfaceConfigured ==
    /\ [](variant = "rust" =>
            /\ \A i \in 1..Len(user_events) : ~user_events[i].is_surface_configured
            /\ C17_IsConfigured(state) =>
                 state[1].config.width > 0 /\ state[1].config.height > 0
            /\ (state # <<>> /\ ~C17_IsConfigured(state) /\ fx.renders > 0) =>
                 /\ ~fx.acquired
                 /\ fx.draws = <<>> /\ fx.clears = <<>>
                 /\ fx.submits = 0 /\ fx.presents = 0
                 /\ fx.result = "Ok")
    /\ [][variant = "rust" =>
            /\ (state = <<>> /\ state' # <<>> /\ ev'.kind = "Resumed") =>
                 ~C17_IsConfigured(state')
            /\ (~C17_IsConfigured(state) /\ C17_IsConfigured(state')) =>
                 /\ ev'.kind \in {"Resized", "UserEvent"}
                 /\ Len(fx'.configures) = 1
                 /\ fx'.configures[1].width > 0 /\ fx'.configures[1].height > 0
                 /\ fx'.configures[1] = state'[1].config
            /\ C17_IsConfigured(state) => C17_IsConfigured(state')]_vars

\* A configured State received a Resized event of width 0 and stayed configured.
C17_Witness ==
    /\ variant = "rust" /\ C17_IsConfigured(state)
    /\ ev.kind = "Resized" /\ ev.size.width = 0
    /\ fx.configures = <<>>

\* The events that ask the program to end.
C18_Closes(e) == e.kind = "CloseRequested" \/ (IsKey(e, "Escape") /\ e.pressed)

\* C18: in both variants, once the State exists, a CloseRequested event or a press
\* of Escape makes the event loop exit, a release of Escape does not, and no other
\* key or window event (C, F, another key, cursor movement, resize, a redraw that
\* succeeds) makes it exit.
C18_ExitEvents ==
    [][(state # <<>> /\ ~exited) =>
          /\ C18_Closes(ev') => (exited' /\ fx'.exits = 1)
          /\ (IsKey(ev', "Escape") /\ ~ev'.pressed) => (~exited' /\ fx'.exits = 0)
          /\ (/\ ~C18_Closes(ev')
              /\ \/ ev'.kind \in {"KeyboardInput", "CursorMoved", "Resized",
                                  "ScaleFactorChanged"}
                 \/ ev'.kind = "RedrawRequested" /\ fx'.result = "Ok")
               => (~exited' /\ fx'.exits = 0)]_vars

\* Escape was released while the State exists and the program still runs.
C18_Witness ==
    /\ state # <<>>
    /\ IsKey(ev, "Escape") /\ ~ev.pressed
    /\ ~exited

\* The kinds of WindowEvent the model delivers to App::window_event.
C19_WindowEvents ==
    {"CloseRequested", "Resized", "RedrawRequested", "KeyboardInput", "CursorMoved"}

\* C19: in src/rust/src/lib.rs every window event delivered while App.state is
\* None is dropped without effect: the loop does not exit (not even on
\* CloseRequested or Escape), nothing is rendered, and the event is not replayed
\* once the State exists: the State that arrives starts with both flags clear, no
\* key seen, no exit and no render.
C19_DroppedWithoutState ==
    /\ []((variant = "rust" /\ state = <<>>) => (~exited /\ key_hist = NoKeys))
    /\ [][(variant = "rust" /\ state = <<>>) =>
            /\ ev'.kind \in C19_WindowEvents =>
                 /\ state' = <<>>
                 /\ fx' = NoFx
                 /\ ~exited'
                 /\ user_events' = user_events /\ spawned' = spawned
                 /\ ev'.kind = "Resized" => ~pending_resized'
            /\ state' # <<>> =>
                 /\ ~state'[1].use_color /\ ~state'[1].use_funny
                 /\ key_hist' = NoKeys
                 /\ ~exited'
                 /\ fx'.renders = 0 /\ fx'.exits = 0]_vars

\* CloseRequested or a press of Escape arrived while App.state was None, and the
\* program still runs.
C19_Witness ==
    /\ variant = "rust" /\ state = <<>>
    /\ window
    /\ C18_Closes(ev)
    /\ ~exited

\* C20: in src/src/lib.rs size.width = config.width and size.height =
\* config.height in every reachable state, and the surface was last configured
\* with exactly config.width and config.height: after State::new, after every
\* resize, accepted or rejected, after ScaleFactorChanged and after the recovery
\* from Lost or Outdated.
C20_SizeIsConfig ==
    variant = "src" =>
        LET s == state[1] IN
        /\ s.size.width = s.config.width
        /\ s.size.height = s.config.height
        /\ s.surface = [configured |-> TRUE, width |-> s.config.width,
                        height |-> s.config.height]
        /\ \A i \in 1..Len(fx.configures) :
             fx.configures[i] = [width |-> s.size.width, height |-> s.size.height]

\* A ScaleFactorChanged event gave the State another size than it was built with.
C20_Witness ==
    /\ variant = "src"
    /\ ev.kind = "ScaleFactorChanged"
    /\ Len(fx.configures) = 1
    /\ state[1].size # InitialSize

\* Each count of State s equals the length of the array behind the buffer it describes.
C21_Counts(v, s) ==
    /\ s.vertex_buffer.contents = "VERTICES"
    /\ s.index_buffer.contents = "INDICES"
    /\ s.funny_vertex_buffer.contents = "FUNNY_VERTICES"
    /\ s.funny_index_buffer.contents = "FUNNY_INDICES"
    /\ s.num_vertices = Len(StaticArray(v, s.vertex_buffer.contents))
    /\ s.num_indices = Len(StaticArray(v, s.index_buffer.contents))
    /\ s.funny_num_vertices = Len(StaticArray(v, s.funny_vertex_buffer.contents))
    /\ s.funny_num_indices = Len(StaticArray(v, s.funny_index_buffer.contents))

\* C21: in both variants each count stored in State equals the number of elements
\* of the static array uploaded to the buffer it describes: num_vertices the length
\* of VERTICES, num_indices that of INDICES, funny_num_vertices that of
\* FUNNY_VERTICES and funny_num_indices that of FUNNY_INDICES.
C21_CountsMatchArrays ==
    /\ state # <<>> => C21_Counts(variant, state[1])
    /\ \A i \in 1..Len(user_events) : C21_Counts(variant, user_events[i])

\* What the code keeps instead: src/rust keeps all four counts right; src/src
\* keeps three right and stores the length of VERTICES in funny_num_vertices.
C21_CountsInCode ==
    /\ (variant = "rust" /\ state # <<>>) => C21_Counts(variant, state[1])
    /\ \A i \in 1..Len(user_events) : C21_Counts(variant, user_events[i])
    /\ variant = "src" =>
         LET s == state[1] IN
         /\ C21_Counts(variant, [s EXCEPT !.funny_num_vertices = Len(FUNNY_VERTICES)])
         /\ s.funny_num_vertices = Len(src_VERTICES)
         /\ s.funny_num_vertices # Len(FUNNY_VERTICES)

====
